---- MODULE Spec2Model ----
(***************************************************************************)
(* Model of browser_use/dom/service.py: DomService.get_clickable_elements, *)
(* _build_dom_tree, _parse_node and _create_selector_map.                  *)
(*                                                                         *)
(* Python objects are modelled by reference: every non-empty entry of the  *)
(* producer's map decodes to exactly one node object, so the reference to  *)
(* a node is the (string) id under which it was stored in node_map, and    *)
(* node_map doubles as the heap.  A child list is a sequence of            *)
(* references, so a node attached twice or under two parents is the same   *)
(* object in both places, as in the code.                                  *)
(***************************************************************************)
EXTENDS Integers, Sequences, FiniteSets, TLC

\* ------------------------------------------------------------------ bounds
MaxNodes == 3      \* entries of the producer's map
MaxRefs == 2       \* child references in one producer output, all records together
RaceNodes == 1     \* entries of each map in the two-call specification
RaceRefs == 1      \* child references of each output in the two-call specification

\* ------------------------------------------------------------ basic values
None == <<>>
Some(x) == <<x>>

\* The handles ("highlightIndex") a record may carry; None is an absent field.
HandleOpts == {None, Some(0), Some(1)}

\* Decimal digits, for str() of a numeric id.
Digits == <<"0", "1", "2", "3", "4", "5", "6", "7">>

\* A raw id of the producer is a JSON string or a JSON number.
IntId(n) == [t |-> "int", v |-> n]
StrId(n) == [t |-> "str", v |-> Digits[n + 1]]

\* str(_id): a string is itself, a number becomes its decimal digits.
Str(raw) == IF raw.t = "str" THEN raw.v ELSE Digits[raw.v + 1]

\* ----------------------------------------------------------- node records
\* A falsy record ({} or null), a text record and an element record.  Only
\* the fields the assembly reads are kept: the type discriminator, the
\* handle and the children ids.
EmptyRec == [type |-> "EMPTY"]
TextRec == [type |-> "TEXT_NODE"]
ElementRec(h, cs) == [type |-> "ELEMENT", highlightIndex |-> h, children |-> cs]

\* ----------------------------------------------------------- _parse_node
DOMTextNode == [type |-> "text", parent |-> None]
DOMElementNode(h) == [type |-> "element", highlight_index |-> h, children |-> <<>>, parent |-> None]

\* Returns (node, children_ids); node = None for a falsy record.
ParseNode(node_data) ==
    IF node_data.type = "EMPTY" THEN [node |-> None, children_ids |-> <<>>]
    ELSE IF node_data.type = "TEXT_NODE" THEN [node |-> Some(DOMTextNode), children_ids |-> <<>>]
    ELSE [node |-> Some(DOMElementNode(node_data.highlightIndex)),
          children_ids |-> node_data.children]

\* ------------------------------------------------------- _build_dom_tree
EmptyMap == [k \in {} |-> None]
MapPut(m, k, v) == [x \in DOMAIN m \cup {k} |-> IF x = k THEN v ELSE m[x]]

\* The loop state: node_map, what was printed, and the exception raised.
LoopState(nm, out, e) == [node_map |-> nm, stdout |-> out, err |-> e]

\* line 101: node_map[id].children.append(child_node)
\* (AppendChildFront: the faulty variant that inserts at the front.)
AppendChildFront(nm, id, child_ref) ==
    [nm EXCEPT ![id].children = <<child_ref>> \o @]
AppendChild(nm, id, child_ref) ==
    [nm EXCEPT ![id].children = Append(@, child_ref)]

\* lines 94-101, one iteration of the inner loop.  The lookup of line 95
\* comes before the membership test of line 97, so a missing key raises
\* KeyError and the test of line 97 never succeeds.
AttachChild(st, id, raw_child) ==
    LET child_id == Str(raw_child) IN
    IF child_id \notin DOMAIN st.node_map
    THEN [st EXCEPT !.err = Some("KeyError:child")]
    ELSE IF child_id \notin DOMAIN st.node_map
    THEN [st EXCEPT !.stdout = Append(@, <<"Child node not found", child_id>>)]
    ELSE [st EXCEPT !.node_map = AppendChild(st.node_map, id, child_id)]

RECURSIVE AttachChildren(_, _, _, _)
AttachChildren(st, id, children_ids, k) ==
    IF st.err # None \/ k > Len(children_ids) THEN st
    ELSE AttachChildren(AttachChild(st, id, children_ids[k]), id, children_ids, k + 1)

\* lines 84-101, one iteration of the outer loop.
ProcessEntry(st, entry) ==
    LET id == Str(entry.id)
        parsed == ParseNode(entry.data)
    IN  IF parsed.node = None
        THEN [st EXCEPT !.stdout = Append(@, <<"Node is None", id>>)]
        ELSE AttachChildren([st EXCEPT !.node_map = MapPut(@, id, parsed.node[1])],
                            id, parsed.children_ids, 1)

RECURSIVE ProcessEntries(_, _, _)
ProcessEntries(st, js_node_map, i) ==
    IF st.err # None \/ i > Len(js_node_map) THEN st
    ELSE ProcessEntries(ProcessEntry(st, js_node_map[i]), js_node_map, i + 1)

\* lines 105-106: raise unless the root is an element node.
\* (RootRejectedNever: the faulty variant without the isinstance test.)
RootRejectedNever(node) == FALSE
RootRejected(node) == node.type # "element"

\* lines 78-108 with node_map starting as nm0 (line 81: {}).  The result is
\* the root reference with the heap, or an exception.
Raised(e, out) == [status |-> "raised", exc |-> e, stdout |-> out]
BuildFrom(nm0, eval_page) ==
    LET st == ProcessEntries(LoopState(nm0, <<>>, None), eval_page.map, 1)
        root_id == Str(eval_page.rootId)
    IN  IF st.err # None THEN Raised(st.err[1], st.stdout)
        ELSE IF root_id \notin DOMAIN st.node_map THEN Raised("KeyError:root", st.stdout)
        ELSE IF RootRejected(st.node_map[root_id]) THEN Raised("ValueError", st.stdout)
        ELSE [status |-> "returned", root |-> root_id, nodes |-> st.node_map,
              stdout |-> st.stdout]

BuildDomTree(eval_page) == BuildFrom(EmptyMap, eval_page)

\* --------------------------------------------------- _create_selector_map
\* process_node, lines 46-52.  acc is the selector_map built so far and
\* whether the recursion overflowed.  A path longer than the number of node
\* objects revisits a node, so the recursion never ends: Python raises
\* RecursionError.
\* (HandleIsSetTruthy: the faulty variant `if node.highlight_index:`, which
\* takes handle 0 for unset.)
HandleIsSetTruthy(node) == node.highlight_index # None /\ node.highlight_index[1] # 0
HandleIsSet(node) == node.highlight_index # None

RECURSIVE process_node(_, _, _, _)
RECURSIVE process_children(_, _, _, _, _)
\* (process_children_first: the faulty variant that visits only the first child.)
process_children_first(nodes, children, k, acc, depth) ==
    IF acc.overflow \/ k > Len(children) \/ k > 1 THEN acc
    ELSE process_node(nodes, children[k], acc, depth)
process_node(nodes, ref, acc, depth) ==
    IF acc.overflow THEN acc
    ELSE IF depth > Cardinality(DOMAIN nodes) THEN [acc EXCEPT !.overflow = TRUE]
    ELSE LET node == nodes[ref] IN
         IF node.type # "element" THEN acc
         ELSE process_children(nodes, node.children, 1,
                  IF HandleIsSet(node)
                  THEN [acc EXCEPT !.selector_map = MapPut(@, node.highlight_index[1], ref)]
                  ELSE acc,
                  depth + 1)
process_children(nodes, children, k, acc, depth) ==
    IF acc.overflow \/ k > Len(children) THEN acc
    ELSE process_children(nodes, children, k + 1,
                          process_node(nodes, children[k], acc, depth), depth)

CreateSelectorMap(nodes, root) ==
    process_node(nodes, root, [selector_map |-> EmptyMap, overflow |-> FALSE], 1)

\* ------------------------------------------------ get_clickable_elements
\* lines 38-41, after the producer returned eval_page; nm0 is node_map as
\* line 81 creates it.
GetClickableFrom(nm0, eval_page) ==
    LET tree == BuildFrom(nm0, eval_page) IN
    IF tree.status = "raised" THEN tree
    ELSE LET acc == CreateSelectorMap(tree.nodes, tree.root) IN
         IF acc.overflow THEN Raised("RecursionError", tree.stdout)
         ELSE [status |-> "returned", element_tree |-> tree.root, nodes |-> tree.nodes,
               selector_map |-> acc.selector_map, stdout |-> tree.stdout]

GetClickableElements(eval_page) == GetClickableFrom(EmptyMap, eval_page)

\* ------------------------------------------------------ the producer
\* Ids are opaque to the code, which only iterates the map in order and
\* compares ids, so the i-th entry is given the key i-1.  A child id or a
\* root id that is >= the number of entries has no entry in the map.
SeqsUpTo(S, r) == UNION {[1 .. k -> S] : k \in 0 .. r}
Records(n, r) ==
    {EmptyRec, TextRec} \cup
    {ElementRec(h, cs) : h \in HandleOpts, cs \in SeqsUpTo({IntId(c) : c \in 0 .. n - 1}, r)}
Refs(rec) == IF rec.type = "ELEMENT" THEN Len(rec.children) ELSE 0
\* The i-th entry of the map (from 0) and the map of a sequence of records.
Entry(i, rec) == [id |-> StrId(i), data |-> rec]
JsNodeMap(recs) == [i \in 1 .. Len(recs) |-> Entry(i - 1, recs[i])]

RECURSIVE TotalRefs(_, _)
TotalRefs(js_node_map, i) ==
    IF i > Len(js_node_map) THEN 0
    ELSE Refs(js_node_map[i].data) + TotalRefs(js_node_map, i + 1)

\* ----------------------------------------------------------------- state
Calls == {"a", "b"}

VARIABLES
    iter,        \* self._iter
    pc,          \* per call: "idle", "await" (suspended at line 76), "done"
    producer,    \* per call: the map the in-page script has built so far
    eval_page,   \* per call: what page.evaluate returned
    result,      \* per call: what get_clickable_elements returned or raised
    overlapped   \* a call started while another one was suspended

vars == <<iter, pc, producer, eval_page, result, overlapped>>

NoOutput == [map |-> <<>>, rootId |-> None]
NoResult == [status |-> "none"]

\* __init__, lines 23-29, and no call made yet.
Init ==
    /\ iter = 0
    /\ pc = [c \in Calls |-> "idle"]
    /\ producer = [c \in Calls |-> <<>>]
    /\ eval_page = [c \in Calls |-> NoOutput]
    /\ result = [c \in Calls |-> NoResult]
    /\ overlapped = FALSE

\* lines 38, 65-76: the call starts, counts the iteration and suspends on
\* page.evaluate.
Call(c) ==
    /\ pc[c] = "idle"
    /\ iter' = iter + 1
    /\ pc' = [pc EXCEPT ![c] = "await"]
    /\ overlapped' = (overlapped \/ \E d \in Calls \ {c} : pc[d] = "await")
    /\ UNCHANGED <<producer, eval_page, result>>

\* The in-page script adds one record to its map (n ids, r references in all).
ProducerEmit(c, n, r) ==
    /\ pc[c] = "await"
    /\ Len(producer[c]) < n
    /\ \E rec \in Records(n, r - TotalRefs(producer[c], 1)) :
         producer' = [producer EXCEPT ![c] =
                         Append(@, Entry(Len(@), rec))]
    /\ UNCHANGED <<iter, pc, eval_page, result, overlapped>>

\* line 81: node_map = {}, a local of the call.
\* (SharedNodeMap: the faulty variant that keeps node_map on the service, so
\* a call starts from the map another call left.)
SharedNodeMap(c) ==
    IF \E d \in Calls \ {c} : result[d].status = "returned"
    THEN result[CHOOSE d \in Calls \ {c} : result[d].status = "returned"].nodes
    ELSE EmptyMap
InitialNodeMap(c) == EmptyMap

\* lines 76-108, 39-41: page.evaluate answers with the script's map and a
\* root id, and the rest of the call runs without suspending.
Resume(c, n) ==
    /\ pc[c] = "await"
    /\ \E root \in 0 .. n - 1 :
         LET out == [map |-> producer[c], rootId |-> IntId(root)] IN
         /\ eval_page' = [eval_page EXCEPT ![c] = out]
         /\ result' = [result EXCEPT ![c] = GetClickableFrom(InitialNodeMap(c), out)]
    /\ producer' = [producer EXCEPT ![c] = <<>>]
    /\ pc' = [pc EXCEPT ![c] = "done"]
    /\ UNCHANGED <<iter, overlapped>>

\* One call on a newly constructed DomService.
Next ==
    \/ Call("a")
    \/ ProducerEmit("a", MaxNodes, MaxRefs)
    \/ Resume("a", MaxNodes)

Spec == Init /\ [][Next]_vars

\* Two calls on one DomService, the second free to start while the first is
\* suspended.
NextRace ==
    \/ \E c \in Calls : Call(c)
    \/ \E c \in Calls : ProducerEmit(c, RaceNodes, RaceRefs)
    \/ \E c \in Calls : Resume(c, RaceNodes)

SpecRace == Init /\ [][NextRace]_vars

\* ============================================================ properties
\* The call the sequential specification makes.
ev == eval_page["a"]
res == result["a"]
Done == pc["a"] = "done"
Returned == Done /\ res.status = "returned"
RaisedExc(e) == Done /\ res.status = "raised" /\ res.exc = e

\* -- the producer's output, read as data
Range(f) == {f[i] : i \in DOMAIN f}
Positions(out) == 1 .. Len(out.map)
KeyAt(out, i) == Str(out.map[i].id)
RecAt(out, i) == out.map[i].data
Keys(out) == {KeyAt(out, i) : i \in Positions(out)}
Pos(out, key) == CHOOSE i \in Positions(out) : KeyAt(out, i) = key
NonEmptyKeys(out) == {KeyAt(out, i) : i \in {j \in Positions(out) : RecAt(out, j).type # "EMPTY"}}
ElementPositions(out) == {i \in Positions(out) : RecAt(out, i).type = "ELEMENT"}
ChildKeys(rec) == [k \in 1 .. Len(rec.children) |-> Str(rec.children[k])]
\* The child references <<i, key>>: the record at position i lists key.
ChildRefs(out) == UNION {{<<i, key>> : key \in Range(ChildKeys(RecAt(out, i)))} : i \in ElementPositions(out)}
RootKey(out) == Str(out.rootId)
RootIsElementRecord(out) ==
    RootKey(out) \in Keys(out) /\ RecAt(out, Pos(out, RootKey(out))).type = "ELEMENT"

\* How a reference <<i, key>> stands to the map.
Dangling(out, ref) == ref[2] \notin Keys(out)
Forward(out, ref) == ref[2] \in Keys(out) /\ Pos(out, ref[2]) > ref[1]
SelfRef(out, ref) == ref[2] \in Keys(out) /\ Pos(out, ref[2]) = ref[1]
Backward(out, ref) == ref[2] \in Keys(out) /\ Pos(out, ref[2]) < ref[1]
ToEmpty(out, ref) == ref[2] \in Keys(out) /\ ref[2] \notin NonEmptyKeys(out)
BackwardDecoded(out, ref) == Backward(out, ref) /\ ~ToEmpty(out, ref)

\* -- graphs
RECURSIVE Closure(_, _)
Closure(succ, S) ==
    LET T == S \cup UNION {succ[x] : x \in S} IN
    IF T = S THEN S ELSE Closure(succ, T)

\* The records reference no cycle.
RecordSucc(out) ==
    [key \in Keys(out) |->
        IF RecAt(out, Pos(out, key)).type = "ELEMENT"
        THEN Range(ChildKeys(RecAt(out, Pos(out, key)))) \cap Keys(out)
        ELSE {}]
Acyclic(out) ==
    \A key \in Keys(out) : key \notin Closure(RecordSucc(out), RecordSucc(out)[key])

\* -- the returned tree, read as data
NodeSucc(nodes) ==
    [r \in DOMAIN nodes |-> IF nodes[r].type = "element" THEN Range(nodes[r].children) ELSE {}]
Reachable(r) == Closure(NodeSucc(r.nodes), {r.element_tree})
HandledNodes(r) ==
    {n \in Reachable(r) : r.nodes[n].type = "element" /\ r.nodes[n].highlight_index # None}
Count(seq, x) == Cardinality({k \in DOMAIN seq : seq[k] = x})
Filter(seq, S) == SelectSeq(seq, LAMBDA x : x \in S)
Printed(r, line) == \E k \in DOMAIN r.stdout : r.stdout[k] = line

\* The tree mirrors the records: one node per non-empty record, of the
\* record's kind, with the record's handle and the record's children in
\* record order.
Mirrors(out, r) ==
    /\ DOMAIN r.nodes = NonEmptyKeys(out)
    /\ r.element_tree = RootKey(out)
    /\ \A i \in Positions(out) :
          LET rec == RecAt(out, i)
              node == r.nodes[KeyAt(out, i)]
          IN  /\ rec.type = "TEXT_NODE" => node.type = "text"
              /\ rec.type = "ELEMENT" =>
                    /\ node.type = "element"
                    /\ node.highlight_index = rec.highlightIndex
                    /\ node.children = ChildKeys(rec)

\* ------------------------------------------------------------------- C1
\* C1: when a record lists a child id that has no entry in the map (and the
\* output is otherwise in order: the root is an element record and every
\* other reference is to an earlier, non-empty record), the call returns,
\* every parent's child list is its record's list without the ids that
\* have no entry, in order, and a diagnostic is printed.
C1_DanglingPrecondition ==
    /\ Done
    /\ RootIsElementRecord(ev)
    /\ \E ref \in ChildRefs(ev) : Dangling(ev, ref)
    /\ \A ref \in ChildRefs(ev) : Dangling(ev, ref) \/ BackwardDecoded(ev, ref)
C1_DanglingChildOmitted ==
    C1_DanglingPrecondition =>
        /\ res.status = "returned"
        /\ \A i \in ElementPositions(ev) :
              res.nodes[KeyAt(ev, i)].children = Filter(ChildKeys(RecAt(ev, i)), Keys(ev))
        /\ \E ref \in ChildRefs(ev) : Printed(res, <<"Child node not found", ref[2]>>)

\* ------------------------------------------------------------------- C2
\* C2: in every returned result the selector map and the tree agree: every
\* element node reachable from the root whose handle is set (0 included)
\* has its handle as a key, and every key maps to a reachable element node
\* carrying that handle; so no text node and no unreachable node is indexed.
C2_IndexAgreesWithTree ==
    Returned =>
        /\ \A n \in HandledNodes(res) : res.nodes[n].highlight_index[1] \in DOMAIN res.selector_map
        /\ \A h \in DOMAIN res.selector_map :
              LET n == res.selector_map[h] IN
              /\ n \in Reachable(res)
              /\ res.nodes[n].type = "element"
              /\ res.nodes[n].highlight_index = Some(h)
\* A returned tree with a text node, an element without a handle that is
\* not reachable, and handle 0 in the index.
C2_Witness ==
    /\ Returned
    /\ 0 \in DOMAIN res.selector_map
    /\ \E n \in Reachable(res) : res.nodes[n].type = "text"
    /\ \E n \in DOMAIN res.nodes \ Reachable(res) : res.nodes[n].type = "element"

\* ------------------------------------------------------------------- C3
\* C3: when the root id has no (non-empty) record in the map, the call fails
\* at the resolution of the root, whatever the map holds, and not with an
\* error raised earlier while linking.
C3_AbsentRootRaisesRootError ==
    (Done /\ RootKey(ev) \notin NonEmptyKeys(ev)) =>
        /\ res.status = "raised"
        /\ res.exc \in {"KeyError:root", "ValueError"}

\* ------------------------------------------------------------------- C4
\* C4: in a returned tree every node other than the root has exactly one
\* parent, that parent's child list holds it exactly once, and the node's
\* parent back-reference is that parent.
C4_ParentBackReference ==
    Returned =>
        \A n \in Reachable(res) \ {res.element_tree} :
            /\ Cardinality({q \in Reachable(res) : n \in NodeSucc(res.nodes)[q]}) = 1
            /\ res.nodes[n].parent # None
            /\ Count(res.nodes[res.nodes[n].parent[1]].children, n) = 1

\* ------------------------------------------------------------------- C5
\* The example of the specification as it is written, the parent "0" listed
\* before its children "1" and "2" ...
ExampleAsWritten ==
    [map |-> JsNodeMap(<<ElementRec(None, <<IntId(1), IntId(2)>>), TextRec,
                         ElementRec(Some(0), <<>>)>>),
     rootId |-> IntId(0)]
\* ... and with the children listed first: text "0", div "1", body "2".
ExampleBottomUp ==
    [map |-> JsNodeMap(<<TextRec, ElementRec(Some(0), <<>>),
                         ElementRec(None, <<IntId(0), IntId(1)>>)>>),
     rootId |-> IntId(2)]

C6_EmptyRecordTolerated ==
    (/\ Done
     /\ RootIsElementRecord(ev)
     /\ Keys(ev) # NonEmptyKeys(ev)
     /\ \A ref \in ChildRefs(ev) : Backward(ev, ref))
    => /\ res.status = "returned"
       /\ DOMAIN res.nodes = NonEmptyKeys(ev)
       /\ \A key \in Keys(ev) \ NonEmptyKeys(ev) : Printed(res, <<"Node is None", key>>)
       /\ \A i \in ElementPositions(ev) :
             res.nodes[KeyAt(ev, i)].children = Filter(ChildKeys(RecAt(ev, i)), NonEmptyKeys(ev))

\* ------------------------------------------------------------------- C7
\* C7: the root of a returned tree is an element node; when the record the
\* root id names is a text record the call raises and returns nothing.
C7_RootIsElement ==
    /\ Returned => res.nodes[res.element_tree].type = "element"
    /\ (/\ Done
        /\ RootKey(ev) \in Keys(ev)
        /\ RecAt(ev, Pos(ev, RootKey(ev))).type = "TEXT_NODE")
       => res.status = "raised"
\* The root id names a text record, linking went through, ValueError.
C7_Witness ==
    /\ RaisedExc("ValueError")
    /\ RootKey(ev) \in Keys(ev)
    /\ RecAt(ev, Pos(ev, RootKey(ev))).type = "TEXT_NODE"
    /\ ElementPositions(ev) # {}

\* ------------------------------------------------------------------- C8
WellFormed(out) ==
    /\ RootKey(out) \in Keys(out)
    /\ \A ref \in ChildRefs(out) : ref[2] \in Keys(out)
\* C8 as stated: for a well-formed output the selector map has as many
\* entries as the tree has element nodes with a handle.
C8_IndexCountsHandledNodes ==
    (Returned /\ WellFormed(ev)) =>
        Cardinality(DOMAIN res.selector_map) = Cardinality(HandledNodes(res))
\* C8, amended: ... provided no two element nodes of the tree carry the same
\* handle.
DistinctHandles(r) ==
    \A m, n \in HandledNodes(r) :
        r.nodes[m].highlight_index = r.nodes[n].highlight_index => m = n
C8_IndexCountsDistinctHandles ==
    (Returned /\ WellFormed(ev) /\ DistinctHandles(res)) =>
        Cardinality(DOMAIN res.selector_map) = Cardinality(HandledNodes(res))
\* Two element nodes with different handles, both indexed.
C8_Witness ==
    /\ Returned
    /\ WellFormed(ev)
    /\ DistinctHandles(res)
    /\ Cardinality(HandledNodes(res)) = 2
    /\ DOMAIN res.selector_map = {0, 1}

\* ------------------------------------------------------------------ C10
\* C10: when a record lists a child that has an entry later in the map (not
\* decoded yet), the assembly is not aborted: the call returns, that child
\* is left out, and a child is attached only if it was decoded before.
\* (The output is otherwise in order.)
C10_UndecodedChildSkipped ==
    (/\ Done
     /\ RootIsElementRecord(ev)
     /\ \E ref \in ChildRefs(ev) : Forward(ev, ref)
     /\ \A ref \in ChildRefs(ev) : (Forward(ev, ref) \/ Backward(ev, ref)) /\ ~ToEmpty(ev, ref))
    => /\ res.status = "returned"
       /\ \A i \in ElementPositions(ev) :
             res.nodes[KeyAt(ev, i)].children =
                 Filter(ChildKeys(RecAt(ev, i)), {KeyAt(ev, j) : j \in 1 .. i - 1})

\* ------------------------------------------------------------------- C9
\* C9: with two calls on one DomService interleaved at the await, every
\* finished call holds exactly what it returns when run alone on its own
\* producer output, and the counter has counted every started call.
C9_CallsIndependent ==
    /\ \A c \in Calls :
          pc[c] = "done" => result[c] = GetClickableElements(eval_page[c])
    /\ iter = Cardinality({c \in Calls : pc[c] # "idle"})
\* Both calls done, the second started while the first was suspended, one
\* returned a tree and the other raised.
C9_Witness ==
    /\ overlapped
    /\ \A c \in Calls : pc[c] = "done"
    /\ result["a"].status = "returned"
    /\ result["b"].status = "raised"
    /\ iter = 2

====
